---- MODULE Spec2Model ----
(***************************************************************************)
(* Bulk upload endpoint POST /files/bulk of data-up-server                 *)
(* (src/src/http/routes/files/create-multiple-files.ts, second revision,   *)
(* lines 303-769), together with FileUploadService and the local storage   *)
(* provider it writes through.                                             *)
(*                                                                         *)
(* One request is modelled from its first line to its response.  The part  *)
(* stream, the clock, the storage backend and the database are the         *)
(* environment: they choose the next part, the millisecond at which a      *)
(* store starts, and whether each store / insert / delete succeeds.        *)
(* Promise reactions (microtasks) triggered by one I/O completion run to   *)
(* completion inside the action of that completion.                        *)
(*                                                                         *)
(* Smaller specifications apply LocalStorageProvider.delete and the        *)
(* pagination utilities of types/api-response.ts to bounded inputs, serve  *)
(* requests of POST /files and DELETE /files/:id one after the other, and  *)
(* call the storage factory (createStorageProvider, getStorageProvider,    *)
(* resetStorageInstance) in every order.                                   *)
(***************************************************************************)
EXTENDS Integers, Sequences, FiniteSets, TLC

(* ------------------------------ constants ------------------------------ *)

MAX_CONCURRENT_UPLOADS == 3

FileCountLimit == 10

ALLOWED_FILE_TYPES ==
    {"image/jpeg", "image/png", "image/gif", "image/webp", "application/pdf",
     "text/plain", "text/html", "application/msword",
     "application/vnd.openxmlformats-officedocument.wordprocessingml.document",
     "application/vnd.ms-excel",
     "application/vnd.openxmlformats-officedocument.spreadsheetml.sheet"}

(* ------------------------------- bounds -------------------------------- *)

\* file parts, other than dropped ones, of a request in which anything may fail
MaxFileParts == 3
\* file parts, other than dropped ones, of a request that reaches the 10-file cap
LongFileParts == 11
\* file parts of a request with every form field and several file names
PlainFileParts == 2
\* file parts of a request whose stores all overlap
BurstFileParts == 5
\* file parts of a small request: one in which anything may fail while the
\* clock advances, one with oversize parts
SmallFileParts == 2
\* file parts of a long request that are disallowed or truncated
MaxOddParts == 1
\* file parts of a valid request that goes past the concurrency ceiling
CeilingFileParts == 4
\* milliseconds the clock advances while the request is read
MaxClock == 1
\* store calls that fail, metadata inserts that fail, unlink calls that fail
MaxStoreFail == 1
MaxInsertFail == 1
MaxDeleteFail == 1
\* requests of POST /files served one after the other
MaxUploads == 3
\* provider objects the storage factory may construct
MaxInstances == 3
\* pagination inputs: pages 1..MaxPage, limits 1..MaxLimit, totals 0..MaxTotal
MaxPage == 4
MaxLimit == 10
MaxTotal == 100

(* ------------------------------- inputs -------------------------------- *)

NoName == ""
Names == {"a.png", "b.png"}
MimeTypes == {"image/png", "application/zip"}

\* A file part as handleFilePart sees it.  oversize: the file has more bytes
\* than limits.fileSize; truncated: part.file.truncated when handleFilePart
\* reads it (the transport sets it while the stream is consumed, so an
\* oversize part may still carry false at that moment).
FileParts ==
    {p \in [filename : Names \cup {NoName}, mimetype : MimeTypes,
             truncated : BOOLEAN, oversize : BOOLEAN] :
        p.truncated => p.oversize}

Absent == "<absent>"
FieldNames == {"ownerId", "createdBy", "folderId", "status"}
FieldValues == {"u1", "ativo"}
UUIDs == {"u1"}

(* The environment of one request: which parts the stream may deliver, how *)
(* many stores may be pending when the next file part is delivered, how    *)
(* far the clock advances while the parts are read, how many faults the    *)
(* backends may produce (deleteFail bounds the unlink calls that fail), and *)
(* whether the transport may mark an oversize part as truncated only after *)
(* handleFilePart has looked at it, and whether the field names delivered  *)
(* again with another value are recorded.                                  *)
FaultyRequest ==
    [files |-> MaxFileParts, odd |-> MaxFileParts, lag |-> FileCountLimit,
     clock |-> 0, names |-> {"a.png"}, fieldNames |-> {"ownerId", "createdBy"},
     storeFail |-> MaxStoreFail, insertFail |-> MaxInsertFail,
     deleteFail |-> MaxDeleteFail, late |-> FALSE,
     history |-> FALSE]

PlainRequest ==
    [files |-> PlainFileParts, odd |-> PlainFileParts, lag |-> FileCountLimit,
     clock |-> 0, names |-> Names, fieldNames |-> FieldNames,
     storeFail |-> 0, insertFail |-> 0, deleteFail |-> 0, late |-> FALSE,
     history |-> FALSE]

LongRequest ==
    [files |-> LongFileParts, odd |-> MaxOddParts, lag |-> 1,
     clock |-> 0, names |-> {"a.png"}, fieldNames |-> {"ownerId", "createdBy"},
     storeFail |-> 0, insertFail |-> 0, deleteFail |-> 0, late |-> FALSE,
     history |-> FALSE]

BurstRequest ==
    [files |-> BurstFileParts, odd |-> 0, lag |-> FileCountLimit,
     clock |-> 0, names |-> {"a.png"}, fieldNames |-> {},
     storeFail |-> MaxStoreFail, insertFail |-> 0, deleteFail |-> 0,
     late |-> FALSE,
     history |-> FALSE]

SmallRequest ==
    [FaultyRequest EXCEPT !.files = SmallFileParts, !.clock = MaxClock]

OversizeRequest ==
    [files |-> SmallFileParts, odd |-> SmallFileParts, lag |-> FileCountLimit,
     clock |-> 0, names |-> {"a.png"}, fieldNames |-> {"ownerId", "createdBy"},
     storeFail |-> 0, insertFail |-> 0, deleteFail |-> 0, late |-> TRUE,
     history |-> TRUE]

CeilingRequest ==
    [files |-> CeilingFileParts, odd |-> 0, lag |-> FileCountLimit,
     clock |-> 0, names |-> {"a.png"}, fieldNames |-> {"ownerId", "createdBy"},
     storeFail |-> MaxStoreFail, insertFail |-> 0, deleteFail |-> 0,
     late |-> FALSE,
     history |-> FALSE]

Requests ==
    {FaultyRequest, SmallRequest, PlainRequest, LongRequest, BurstRequest,
     OversizeRequest, CeilingRequest}

VARIABLES
    pc,               \* position of multipartUploadHandler
    multipart,        \* request.isMultipart()
    data,             \* field map built by handleFieldPart
    fileCount,        \* collectMultipartParts.fileCount
    tasks,            \* collectMultipartParts.tasks, with each task's store and save state
    inflight,         \* collectMultipartParts.inflight (indices of unsettled wrapped promises)
    immediateErrors,  \* collectMultipartParts.immediateErrors
    storage,          \* paths that exist in the storage backend
    records,          \* rows of the files table inserted by this request
    status,           \* HTTP status sent (0: none yet)
    results,          \* results array of the 200 response
    unhandled,        \* a promise was rejected while no reaction was attached to it
    drained,          \* number of part streams drained by enforceFileCountLimit
    now,              \* Date.now()
    named,            \* file parts with a non-empty file name delivered so far
    streamFailed,     \* request.parts() threw
    env,              \* what the environment of this request may do
    provider,         \* last call made on LocalStorageProvider directly
    pagination,       \* inputs and results of the pagination utilities
    arrived,          \* last value the stream delivered under each field name, and
                      \* the names delivered again with another value
    stalled,          \* request.parts() waits on a file body that nobody consumes
    route,            \* one request of POST /files or DELETE /files/:id
    factory           \* storageInstance of the storage factory, and its last call

vars == <<pc, multipart, data, fileCount, tasks, inflight, immediateErrors,
          storage, records, status, results, unhandled, drained, now, named,
          streamFailed, env, provider, pagination, arrived, stalled, route,
          factory>>

\* the variables of one bulk upload request, other than the storage backend
handlerVars == <<pc, multipart, data, fileCount, tasks, inflight,
                 immediateErrors, status, results, unhandled, drained,
                 now, named, streamFailed, env, arrived, stalled>>
requestVars == <<handlerVars, records>>

(* ----------------------------- pure helpers ---------------------------- *)

\* FileUploadService.validateFileType
validateFileType(mimeType, allowedTypes) ==
    IF allowedTypes = {} THEN TRUE ELSE mimeType \in allowedTypes

\* LocalStorageProvider.upload: `${timestamp}_${sha256(fileName_timestamp)}${ext}`
\* under the date directory; a function of the file name and the millisecond
StoragePath(fileName, timestamp) == <<timestamp, fileName>>

\* what unlink(path) may report: success on an existing file, ENOENT on a
\* missing one, or some other I/O error
UnlinkErrnos(fs, path) ==
    (IF path \in fs THEN {"OK"} ELSE {"ENOENT"}) \cup {"EIO"}

\* variant of delete that rethrows every unlink error
deleteStrict(fs, path, errno) ==
    [fs |-> IF errno = "OK" THEN fs \ {path} ELSE fs, threw |-> errno # "OK"]

\* LocalStorageProvider.delete: unlink, ENOENT is not an error
delete(fs, path, errno) ==
    [fs |-> IF errno = "OK" THEN fs \ {path} ELSE fs,
     threw |-> errno \notin {"OK", "ENOENT"}]

\* variant of RemovePartial that leaves the partial file in place
RemovePartialNever(fs, path, errno) == fs

\* LocalStorageProvider.upload, catch block: existsSync -> unlink, and an
\* error of that unlink is only logged
RemovePartial(fs, path, errno) ==
    IF path \in fs /\ errno = "OK" THEN fs \ {path} ELSE fs

\* variant of FieldsValid that does not look at createdBy
FieldsValidOwnerOnly(d) ==
    /\ d["ownerId"] \in UUIDs
    /\ d["folderId"] \in UUIDs \cup {Absent}
    /\ d["status"] \in {"ativo", "lixeira", Absent}

\* multipartFieldsSchema.safeParse(data).success
FieldsValid(d) ==
    /\ d["ownerId"] \in UUIDs
    /\ d["createdBy"] \in UUIDs
    /\ d["folderId"] \in UUIDs \cup {Absent}
    /\ d["status"] \in {"ativo", "lixeira", Absent}

\* multipartFieldsSchema.safeParse(data).data
ParsedFields(d) ==
    [ownerId |-> d["ownerId"], createdBy |-> d["createdBy"],
     folderId |-> d["folderId"],
     status |-> IF d["status"] = Absent THEN "ativo" ELSE d["status"]]

\* variant of enforceFileCountLimit that caps the request at the ceiling
enforceFileCountLimitAtCeiling(count) == count < MAX_CONCURRENT_UPLOADS

\* enforceFileCountLimit: the part may be processed
enforceFileCountLimit(count) == count < FileCountLimit

\* variant of Gate that always waits on Promise.race(inflight)
GateAlwaysRaces(infl, self, maxConcurrent) == [raced |-> TRUE, on |-> infl]

\* createUploadTaskFromPart: the gate of a new task, built from the in-flight set
Gate(infl, self, maxConcurrent) ==
    IF Cardinality(infl) >= maxConcurrent
        THEN [raced |-> TRUE, on |-> infl]
        ELSE [raced |-> FALSE, on |-> {}]

\* the gate promise has settled, given the set of settled wrapped promises
GateOpen(t, settled) == (~t.gate.raced) \/ (t.gate.on \cap settled # {})

\* wrapped promises that settle once the reactions have run: a wrapped promise
\* settles when its gate has settled and its store has settled
RECURSIVE Drain(_, _)
Drain(ts, settled) ==
    LET new == {j \in (DOMAIN ts) \ settled :
                    ts[j].store # "pending" /\ GateOpen(ts[j], settled)}
    IN  IF new = {} THEN settled ELSE Drain(ts, settled \cup new)

\* some Promise.race of a later task has attached a reaction to wrapped i
Watched(ts, i) == \E j \in DOMAIN ts : ts[j].gate.raced /\ i \in ts[j].gate.on

\* LocalStorageProvider.upload: the store calls that have written the file at
\* a path
Writers(ts, path) ==
    {j \in DOMAIN ts : StoragePath(ts[j].filename, ts[j].ts) = path}

\* LocalStorageProvider.upload, stats.size: the size of the part's own bytes
\* when no other store call has written the file, some other number of
\* bytes otherwise
statSize(ts, i) ==
    IF Writers(ts, StoragePath(ts[i].filename, ts[i].ts)) = {i}
        THEN "own" ELSE "mixed"

Pending(ts) == {i \in DOMAIN ts : ts[i].store = "pending"}
\* variant of Fulfilled that takes every settled result as fulfilled
FulfilledOrRejected(ts) == DOMAIN ts

\* persistSettledUploads: the settled results with status 'fulfilled'
Fulfilled(ts) == {i \in DOMAIN ts : ts[i].store = "ok"}

(* -------------------------------- Init --------------------------------- *)

\* no direct provider call and no pagination call has been made
NoCall == [op |-> "none", path |-> <<>>, errno |-> "", threw |-> FALSE]
NoPage == [page |-> 0, limit |-> 0, total |-> 0, offset |-> 0, called |-> FALSE,
           meta |-> [page |-> 0, limit |-> 0, total |-> 0, totalPages |-> 0,
                     hasNext |-> FALSE, hasPrev |-> FALSE]]

\* no request of the single-file routes is being served
NoRoute ==
    [op |-> "none", pc |-> "idle", status |-> 0, id |-> 0, path |-> <<>>,
     seq |-> 0, name |-> "", mimetype |-> "", fields |-> <<>>]
\* let storageInstance = null, and no call made yet
NoConfig == [type |-> "", local |-> FALSE, s3 |-> FALSE]
NoFactory ==
    [instance |-> 0, kind |-> "", built |-> 0, returned |-> 0, threw |-> FALSE,
     op |-> "none", config |-> NoConfig]

\* a request that has just arrived
NewRequest(requests) ==
    /\ pc = "start"
    /\ multipart \in BOOLEAN
    /\ data = [f \in FieldNames |-> Absent]
    /\ fileCount = 0
    /\ tasks = <<>>
    /\ inflight = {}
    /\ immediateErrors = <<>>
    /\ records = {}
    /\ status = 0
    /\ results = <<>>
    /\ unhandled = FALSE
    /\ drained = 0
    /\ now = 0
    /\ named = 0
    /\ streamFailed = FALSE
    /\ env \in requests
    /\ arrived = [last |-> [f \in FieldNames |-> Absent], replaced |-> {}]
    /\ stalled = FALSE

InitOf(requests) ==
    /\ NewRequest(requests)
    /\ storage = {}
    /\ provider = NoCall
    /\ pagination = NoPage
    /\ route = NoRoute
    /\ factory = NoFactory

Init == InitOf(Requests)

(* ------------------------- results of one item ------------------------- *)

NoFile ==
    [id |-> 0, name |-> "", type |-> "", size |-> "", storagePath |-> <<>>,
     ownerId |-> "", createdBy |-> "", folderId |-> "", status |-> ""]

\* { success: false, error: `${name}: ${message}` }
ItemError(name, kind, detail) ==
    [success |-> FALSE, filename |-> name, error |-> kind, detail |-> detail,
     file |-> NoFile]

\* { success: true, file: record }
ItemSuccess(record) ==
    [success |-> TRUE, filename |-> record.name, error |-> "", detail |-> "",
     file |-> record]

\* variant of handleFilePart without the media-type check
handleFilePartAnyType(part) ==
    IF part.filename = NoName THEN "dropped"
    ELSE IF part.truncated THEN "truncated"
    ELSE "task"

\* variant of handleFilePart without the file-name check
handleFilePartNameless(part) ==
    IF part.truncated THEN "truncated"
    ELSE IF ~validateFileType(part.mimetype, ALLOWED_FILE_TYPES) THEN "type"
    ELSE "task"

\* handleFilePart: what becomes of a file part that passed the count limit
handleFilePart(part) ==
    IF part.filename = NoName THEN "dropped"
    ELSE IF part.truncated THEN "truncated"
    ELSE IF ~validateFileType(part.mimetype, ALLOWED_FILE_TYPES) THEN "type"
    ELSE "task"

\* saveFileToDatabase: the row inserted for a stored artifact
FileRecord(i, t, fields) ==
    [id |-> i, name |-> t.filename, type |-> t.mimetype, size |-> t.size,
     storagePath |-> StoragePath(t.filename, t.ts),
     ownerId |-> fields.ownerId, createdBy |-> fields.createdBy,
     folderId |-> IF fields.folderId = Absent THEN "null" ELSE fields.folderId,
     status |-> fields.status]

\* variant of PersistedResult that reports a failed compensating delete
PersistedResultDeleteError(i, t, fields) ==
    IF t.store = "ok"
        THEN IF t.stage = "saved"
                THEN ItemSuccess(FileRecord(i, t, fields))
                ELSE ItemError(t.filename,
                               IF t.stage = "undeleted" THEN "delete" ELSE "db", "")
        ELSE ItemError(t.filename, "store", "")

\* persistSettledUploads: the result of task i once its save has settled
PersistedResult(i, t, fields) ==
    IF t.store = "ok"
        THEN IF t.stage = "saved"
                THEN ItemSuccess(FileRecord(i, t, fields))
                ELSE ItemError(t.filename, "db", "")
        ELSE ItemError(t.filename, "store", "")

\* response summary, as multipartUploadHandler computes it
RECURSIVE CountSuccess(_)
CountSuccess(rs) ==
    IF rs = <<>> THEN 0
    ELSE (IF Head(rs).success THEN 1 ELSE 0) + CountSuccess(Tail(rs))

Summary(rs) ==
    [total |-> Len(rs), successful |-> CountSuccess(rs),
     failed |-> Len(rs) - CountSuccess(rs)]

\* variant of NoFiles that looks at the upload tasks only
NoFilesTasksOnly(uploadTasks, errors) == uploadTasks = <<>>

\* multipartUploadHandler, line 424: nothing was uploaded
NoFiles(uploadTasks, errors) == uploadTasks = <<>> /\ errors = <<>>

\* variant of CleanupTargets that misses the last settled result
CleanupTargetsButLast(ts) ==
    {i \in DOMAIN ts : ts[i].store = "ok" /\ i < Len(ts)}

\* cleanupUploadedFilesOnValidationFailure: the settled results it deletes
CleanupTargets(ts) == {i \in DOMAIN ts : ts[i].store = "ok"}

\* variant of handleFieldPart that keeps the first value of a field name
handleFieldPartKeepFirst(d, fieldname, value) ==
    IF d[fieldname] = Absent THEN [d EXCEPT ![fieldname] = value] ELSE d

\* handleFieldPart: data[part.fieldname] = part.value
handleFieldPart(d, fieldname, value) == [d EXCEPT ![fieldname] = value]

\* handleUploadError: status for an exception caught by the handler
handleUploadError(isZodError) == IF isZodError THEN 400 ELSE 500

(* ------------------------------- actions ------------------------------- *)

\* multipartUploadHandler, lines 408-416
Start ==
    /\ pc = "start"
    /\ IF multipart
          THEN pc' = "reading" /\ status' = status
          ELSE pc' = "done" /\ status' = 400
    /\ UNCHANGED <<multipart, data, fileCount, tasks, inflight, immediateErrors,
                   storage, records, results, unhandled, drained, now, named,
                   streamFailed, env, provider, pagination,
                   arrived, stalled, route, factory>>

\* the clock advances by one millisecond
Tick ==
    /\ pc = "reading"
    /\ now < env.clock
    /\ now' = now + 1
    /\ UNCHANGED <<pc, multipart, data, fileCount, tasks, inflight,
                   immediateErrors, storage, records, status, results,
                   unhandled, drained, named, streamFailed, env, provider, pagination,
                   arrived, stalled, route, factory>>

\* collectMultipartParts, a field part: handleFieldPart
ReadFieldPart ==
    /\ pc = "reading"
    /\ ~stalled
    /\ \E f \in env.fieldNames, v \in FieldValues :
          /\ data' = handleFieldPart(data, f, v)
          /\ arrived' =
                [last |-> [arrived.last EXCEPT ![f] = v],
                 replaced |->
                    IF env.history /\ arrived.last[f] \notin {Absent, v}
                        THEN arrived.replaced \cup {f}
                        ELSE arrived.replaced]
    /\ UNCHANGED <<pc, multipart, fileCount, tasks, inflight, immediateErrors,
                   storage, records, status, results, unhandled, drained, now,
                   named, streamFailed, env, provider, pagination,
                   stalled, route, factory>>

\* handleFilePart returns without reading part.file: the transport delivers
\* the next part (or the end of the stream) only once the body of this one
\* has been consumed, unless the whole body already sits in its buffer
Unconsumed(part) == BOOLEAN

IsOdd(part) ==
    part.filename = NoName \/ part.truncated
        \/ ~validateFileType(part.mimetype, ALLOWED_FILE_TYPES)

OddSoFar ==
    Cardinality({k \in DOMAIN immediateErrors :
                    immediateErrors[k].error # "limit"})

StoreFailures == Cardinality({i \in DOMAIN tasks : tasks[i].store = "failed"})
InsertFailures ==
    Cardinality({i \in DOMAIN tasks :
                    pc = "persisting"
                      /\ tasks[i].stage \in {"deleting", "deleted", "undeleted"}})
DeleteFailures ==
    Cardinality({i \in DOMAIN tasks : tasks[i].stage = "undeleted"})
\* failed stores whose partial file could not be removed
PartialLeft == Cardinality({i \in DOMAIN tasks : tasks[i].partial})
UnlinkFailures == DeleteFailures + PartialLeft

\* collectMultipartParts, a file part: enforceFileCountLimit, then
\* createUploadTaskFromPart (handleFilePart starts the store at once)
ReadFile(part) ==
    /\ pc = "reading"
    /\ ~stalled
    /\ Len(tasks) + Len(immediateErrors) < env.files
    /\ Cardinality(Pending(tasks)) < env.lag
    /\ part.filename \in env.names \cup {NoName}
    /\ IsOdd(part) => OddSoFar < env.odd
    /\ (part.oversize /\ ~part.truncated) => env.late
    /\ named' = IF part.filename = NoName THEN named ELSE named + 1
    /\ IF ~enforceFileCountLimit(fileCount)
         THEN /\ immediateErrors' = Append(immediateErrors,
                    ItemError(IF part.filename = NoName THEN "arquivo"
                              ELSE part.filename, "limit", ""))
              /\ drained' = drained + 1
              /\ UNCHANGED <<tasks, inflight, fileCount, storage, stalled>>
         ELSE
           LET kind == handleFilePart(part) IN
           /\ drained' = drained
           /\ IF kind = "task"
                THEN LET idx == Len(tasks) + 1 IN
                     /\ tasks' = Append(tasks,
                           [filename |-> part.filename,
                            mimetype |-> part.mimetype,
                            oversize |-> part.oversize,
                            ts |-> now,
                            store |-> "pending",
                            partial |-> FALSE,
                            size |-> "",
                            gate |-> Gate(inflight, idx, MAX_CONCURRENT_UPLOADS),
                            stage |-> "none"])
                     /\ inflight' = inflight \cup {idx}
                     /\ fileCount' = fileCount + 1
                     /\ storage' = storage \cup {StoragePath(part.filename, now)}
                     /\ UNCHANGED <<immediateErrors, stalled>>
                ELSE /\ immediateErrors' =
                           IF kind = "dropped" THEN immediateErrors
                           ELSE Append(immediateErrors,
                                  ItemError(part.filename, kind,
                                     IF kind = "type" THEN part.mimetype ELSE ""))
                     /\ stalled' \in Unconsumed(part)
                     /\ UNCHANGED <<tasks, inflight, fileCount, storage>>
    /\ UNCHANGED <<pc, multipart, data, records, status, results, unhandled,
                   now, streamFailed, env, provider, pagination,
                   arrived, route, factory>>

ReadFilePart == \E part \in FileParts : ReadFile(part)

\* one store call settles (FileUploadService.uploadFile ->
\* LocalStorageProvider.upload), and the promise reactions it triggers run
StoreSettle(i, ok) ==
    /\ i \in DOMAIN tasks
    /\ tasks[i].store = "pending"
    /\ LET t == tasks[i]
           path == StoragePath(t.filename, t.ts)
           settledBefore == (DOMAIN tasks) \ inflight
       IN
       /\ IF ok
            THEN /\ path \in storage          \* statSync(filePath) succeeds
                 /\ storage' = storage
                 /\ tasks' = [tasks EXCEPT ![i].store = "ok",
                                            ![i].size = statSize(tasks, i)]
            ELSE /\ StoreFailures < env.storeFail \/ path \notin storage
                 /\ \E errno \in UnlinkErrnos(storage, path) :
                       /\ errno = "EIO" =>
                             (path \in storage /\ UnlinkFailures < env.deleteFail)
                       /\ storage' = RemovePartial(storage, path, errno)
                       /\ tasks' = [tasks EXCEPT
                                      ![i].store = "failed",
                                      ![i].partial = (errno = "EIO")]
       /\ inflight' = (DOMAIN tasks) \ Drain(tasks', settledBefore)
       /\ unhandled' =
            (unhandled \/
               (~ok /\ (~GateOpen(t, settledBefore)
                          \/ (pc = "reading" /\ ~Watched(tasks, i)))))
    /\ UNCHANGED <<pc, multipart, data, fileCount, immediateErrors, records,
                   status, results, drained, now, named, streamFailed, env, provider, pagination,
                   arrived, stalled, route, factory>>

StoreOk == \E i \in DOMAIN tasks : StoreSettle(i, TRUE)
StoreFail == \E i \in DOMAIN tasks : StoreSettle(i, FALSE)

\* request.parts() throws: the catch of multipartUploadHandler
StreamError ==
    /\ pc = "reading"
    /\ streamFailed' = TRUE
    /\ status' = handleUploadError(FALSE)
    /\ pc' = "done"
    /\ UNCHANGED <<multipart, data, fileCount, tasks, inflight, immediateErrors,
                   storage, records, results, unhandled, drained, now, named, env, provider, pagination,
                   arrived, stalled, route, factory>>

\* the part stream ends: multipartUploadHandler, lines 424-457
EndOfStream ==
    /\ pc = "reading"
    /\ ~stalled
    /\ IF NoFiles(tasks, immediateErrors)
         THEN pc' = "done" /\ status' = 400
         ELSE /\ status' = status
              /\ pc' = IF FieldsValid(data) THEN "settling" ELSE "unwinding"
    /\ UNCHANGED <<multipart, data, fileCount, tasks, inflight, immediateErrors,
                   storage, records, results, unhandled, drained, now, named,
                   streamFailed, env, provider, pagination,
                   arrived, stalled, route, factory>>

\* validation failed and Promise.allSettled has resolved:
\* cleanupUploadedFilesOnValidationFailure issues the deletes
CleanupStart ==
    /\ pc = "unwinding"
    /\ inflight = {}
    /\ tasks' = [i \in DOMAIN tasks |->
                    IF i \in CleanupTargets(tasks)
                        THEN [tasks[i] EXCEPT !.stage = "deleting"]
                        ELSE tasks[i]]
    /\ pc' = "cleanup"
    /\ UNCHANGED <<multipart, data, fileCount, inflight, immediateErrors,
                   storage, records, status, results, unhandled, drained, now,
                   named, streamFailed, env, provider, pagination,
                   arrived, stalled, route, factory>>

\* validation passed and Promise.allSettled has resolved:
\* persistSettledUploads issues the inserts
PersistStart ==
    /\ pc = "settling"
    /\ inflight = {}
    /\ tasks' = [i \in DOMAIN tasks |->
                    IF i \in Fulfilled(tasks)
                        THEN [tasks[i] EXCEPT !.stage = "inserting"]
                        ELSE tasks[i]]
    /\ pc' = "persisting"
    /\ UNCHANGED <<multipart, data, fileCount, inflight, immediateErrors,
                   storage, records, status, results, unhandled, drained, now,
                   named, streamFailed, env, provider, pagination,
                   arrived, stalled, route, factory>>

\* saveFileToDatabase settles for task i
InsertSettle(i, ok) ==
    /\ pc = "persisting"
    /\ i \in DOMAIN tasks
    /\ tasks[i].stage = "inserting"
    /\ IF ok
         THEN /\ records' = records \cup {FileRecord(i, tasks[i], ParsedFields(data))}
              /\ tasks' = [tasks EXCEPT ![i].stage = "saved"]
         ELSE /\ InsertFailures < env.insertFail
              /\ tasks' = [tasks EXCEPT ![i].stage = "deleting"]
              /\ records' = records
    /\ UNCHANGED <<pc, multipart, data, fileCount, inflight, immediateErrors,
                   storage, status, results, unhandled, drained, now, named,
                   streamFailed, env, provider, pagination,
                   arrived, stalled, route, factory>>

InsertOk == \E i \in DOMAIN tasks : InsertSettle(i, TRUE)
InsertFail == \E i \in DOMAIN tasks : InsertSettle(i, FALSE)

\* uploadService.deleteFile(storagePath) settles for task i
\* (LocalStorageProvider.delete: ENOENT is not an error)
DeleteSettle(i, ok) ==
    /\ pc \in {"cleanup", "persisting"}
    /\ i \in DOMAIN tasks
    /\ tasks[i].stage = "deleting"
    /\ LET path == StoragePath(tasks[i].filename, tasks[i].ts)
           errno == IF ~ok THEN "EIO"
                    ELSE IF path \in storage THEN "OK" ELSE "ENOENT"
           r == delete(storage, path, errno)
       IN  /\ errno \in UnlinkErrnos(storage, path)
           /\ ~ok => UnlinkFailures < env.deleteFail
           /\ storage' = r.fs
           /\ tasks' = [tasks EXCEPT
                          ![i].stage = IF r.threw THEN "undeleted" ELSE "deleted"]
    /\ UNCHANGED <<pc, multipart, data, fileCount, inflight, immediateErrors,
                   records, status, results, unhandled, drained, now, named,
                   streamFailed, env, provider, pagination,
                   arrived, stalled, route, factory>>

DeleteOk == \E i \in DOMAIN tasks : DeleteSettle(i, TRUE)
DeleteFail == \E i \in DOMAIN tasks : DeleteSettle(i, FALSE)

\* variant of SaveSettled that does not wait for the compensating delete
SaveSettledInsertOnly(t) == t.stage # "inserting"

\* persistSettledUploads, one element of savePromises has settled: the insert
\* has, and the awaited compensating delete if the insert failed
SaveSettled(t) == t.stage \notin {"inserting", "deleting"}

\* every cleanup delete has settled: the 400 of lines 447-454
RespondInvalid ==
    /\ pc = "cleanup"
    /\ \A i \in DOMAIN tasks : SaveSettled(tasks[i])
    /\ status' = 400
    /\ pc' = "done"
    /\ UNCHANGED <<multipart, data, fileCount, tasks, inflight, immediateErrors,
                   storage, records, results, unhandled, drained, now, named,
                   streamFailed, env, provider, pagination,
                   arrived, stalled, route, factory>>

\* every save has settled: the 200 of lines 468-488
RespondOk ==
    /\ pc = "persisting"
    /\ \A i \in DOMAIN tasks : SaveSettled(tasks[i])
    /\ results' = immediateErrors \o
                    [i \in DOMAIN tasks |->
                        PersistedResult(i, tasks[i], ParsedFields(data))]
    /\ status' = 200
    /\ pc' = "done"
    /\ UNCHANGED <<multipart, data, fileCount, tasks, inflight, immediateErrors,
                   storage, records, unhandled, drained, now, named,
                   streamFailed, env, provider, pagination,
                   arrived, stalled, route, factory>>

Next ==
    \/ Start
    \/ Tick
    \/ ReadFieldPart
    \/ ReadFilePart
    \/ StoreOk
    \/ StoreFail
    \/ StreamError
    \/ EndOfStream
    \/ CleanupStart
    \/ PersistStart
    \/ InsertOk
    \/ InsertFail
    \/ DeleteOk
    \/ DeleteFail
    \/ RespondInvalid
    \/ RespondOk

Spec == Init /\ [][Next]_vars

(* the same request with every store call eventually settling *)
InitLive == InitOf({SmallRequest, BurstRequest})

LiveSpec ==
    /\ InitLive
    /\ [][Next]_vars
    /\ WF_vars(StoreOk \/ StoreFail)

(* the same request with a part stream that ends and with store, insert and
   delete calls that all settle eventually *)
TerminationSpec ==
    /\ InitLive
    /\ [][Next]_vars
    /\ WF_vars(Start)
    /\ WF_vars(EndOfStream)
    /\ WF_vars(StoreOk \/ StoreFail)
    /\ WF_vars(CleanupStart)
    /\ WF_vars(PersistStart)
    /\ WF_vars(InsertOk \/ InsertFail)
    /\ WF_vars(DeleteOk \/ DeleteFail)
    /\ WF_vars(RespondInvalid)
    /\ WF_vars(RespondOk)

(* ------------- LocalStorageProvider.delete, called directly ------------- *)

\* paths a store call of the inputs can generate
ProviderPaths == {StoragePath(n, t) : n \in Names, t \in 0..MaxClock}

ProviderInit ==
    /\ NewRequest({PlainRequest})
    /\ multipart
    /\ storage \in SUBSET ProviderPaths
    /\ provider = NoCall
    /\ pagination = NoPage
    /\ route = NoRoute
    /\ factory = NoFactory

\* one call of LocalStorageProvider.delete(storagePath)
ProviderDelete ==
    \E path \in ProviderPaths :
      \E errno \in UnlinkErrnos(storage, path) :
        LET r == delete(storage, path, errno) IN
        /\ storage' = r.fs
        /\ provider' = [op |-> "delete", path |-> path, errno |-> errno,
                        threw |-> r.threw]
        /\ UNCHANGED <<requestVars, pagination, route, factory>>

ProviderSpec == ProviderInit /\ [][ProviderDelete]_vars

(* ------------------- POST /files and DELETE /files/:id ------------------ *)

\* field maps a single upload may carry: valid, or without createdBy
SingleFieldMaps ==
    {[f \in FieldNames |-> IF f \in req THEN "u1" ELSE Absent] :
        req \in {{"ownerId", "createdBy"}, {"ownerId"}}}

\* isValidationError: the wording of the error message decides
isValidationError(wording) ==
    wording \in {"obrigatório", "faltando", "não suportado", "não foi enviado",
                 "uuid", "invalid"}

\* handleUploadError of POST /files
createFileHandleUploadError(isZodError, wording) ==
    IF isZodError THEN 400
    ELSE IF isValidationError(wording) THEN 400 ELSE 500

\* what the backends may put in the message of a failure
FailureWordings == {"EIO", "invalid"}

\* multipartUploadHandler of POST /files, up to the call of processFileUpload:
\* the status of an early reply, or 0
createFileEarlyStatus(mp, fileParts) ==
    IF ~mp THEN 400
    ELSE IF fileParts # <<>> /\ fileParts[1].filename = NoName THEN 400
    ELSE IF Len(fileParts) > 1 THEN 400
    ELSE IF fileParts = <<>> THEN 400
    ELSE 0

\* processFileUpload, before the store: schema parse, then validateFileType
processFileUpload(file, d) ==
    IF ~FieldsValid(d) THEN "zod"
    ELSE IF ~validateFileType(file.mimetype, ALLOWED_FILE_TYPES) THEN "type"
    ELSE "store"

\* file parts of a single upload: none, one or two
SingleFileParts ==
    {<<>>} \cup {<<p>> : p \in {q \in FileParts : ~q.oversize}}
           \cup {<<p, p>> : p \in {q \in FileParts : ~q.oversize}}

FilesInit ==
    /\ NewRequest({PlainRequest})
    /\ multipart
    /\ storage = {}
    /\ provider = NoCall
    /\ pagination = NoPage
    /\ route = NoRoute
    /\ factory = NoFactory

\* POST /files: the handler reads the parts and replies early, or
\* processFileUpload validates and starts the store
CreateFileReceive ==
    /\ route.pc \in {"idle", "done"}
    /\ route.seq < MaxUploads
    /\ \E mp \in BOOLEAN, fileParts \in SingleFileParts, d \in SingleFieldMaps :
         LET early == createFileEarlyStatus(mp, fileParts)
             seq == route.seq + 1
             fresh == [NoRoute EXCEPT !.op = "upload", !.seq = seq, !.id = seq]
         IN  IF early # 0
               THEN /\ route' = [fresh EXCEPT !.pc = "done", !.status = early]
                    /\ storage' = storage
               ELSE LET file == fileParts[1]
                        step == processFileUpload(file, d)
                    IN  IF step = "store"
                          THEN /\ route' =
                                    [fresh EXCEPT
                                       !.pc = "storing",
                                       !.path = StoragePath(file.filename, seq),
                                       !.name = file.filename,
                                       !.mimetype = file.mimetype,
                                       !.fields = ParsedFields(d)]
                               /\ storage' =
                                    storage \cup {StoragePath(file.filename, seq)}
                          ELSE /\ route' =
                                    [fresh EXCEPT
                                       !.pc = "done",
                                       !.status = createFileHandleUploadError(
                                                     step = "zod", "não suportado")]
                               /\ storage' = storage
    /\ UNCHANGED <<requestVars, records, provider, pagination, factory>>

\* POST /files: uploadService.uploadFile settles
CreateFileStore(ok) ==
    /\ route.pc = "storing"
    /\ IF ok
         THEN /\ route.path \in storage
              /\ storage' = storage
              /\ route' = [route EXCEPT !.pc = "inserting"]
         ELSE \E errno \in UnlinkErrnos(storage, route.path),
                 wording \in FailureWordings :
                 /\ errno = "EIO" => route.path \in storage
                 /\ storage' = RemovePartial(storage, route.path, errno)
                 /\ route' = [route EXCEPT
                                 !.pc = "done",
                                 !.status = createFileHandleUploadError(FALSE, wording)]
    /\ UNCHANGED <<requestVars, records, provider, pagination, factory>>

CreateFileStoreOk == CreateFileStore(TRUE)
CreateFileStoreFail == CreateFileStore(FALSE)

\* POST /files: saveFileToDatabase settles
CreateFileInsert(ok) ==
    /\ route.pc = "inserting"
    /\ IF ok
         THEN /\ records' = records \cup
                    {FileRecord(route.id,
                                [filename |-> route.name, mimetype |-> route.mimetype,
                                 size |-> "own", ts |-> route.seq],
                                route.fields)}
              /\ route' = [route EXCEPT !.pc = "done", !.status = 201]
         ELSE /\ records' = records
              /\ \E wording \in FailureWordings :
                    route' = [route EXCEPT
                                 !.pc = "done",
                                 !.status = createFileHandleUploadError(FALSE, wording)]
    /\ UNCHANGED <<handlerVars, storage, provider, pagination, factory>>

CreateFileInsertOk == CreateFileInsert(TRUE)
CreateFileInsertFail == CreateFileInsert(FALSE)

\* DELETE /files/:id
DeleteFileById ==
    /\ route.pc \in {"idle", "done"}
    /\ \E id \in 1..MaxUploads :
         LET rows == {r \in records : r.id = id} IN
         /\ records' = records \ rows
         /\ route' =
               [NoRoute EXCEPT
                  !.op = "delete", !.pc = "done", !.seq = route.seq, !.id = id,
                  !.status = IF rows = {} THEN 404 ELSE 204,
                  !.path = IF rows = {} THEN <<>>
                           ELSE (CHOOSE r \in rows : TRUE).storagePath]
    /\ UNCHANGED <<handlerVars, storage, provider, pagination, factory>>

FilesNext ==
    \/ CreateFileReceive
    \/ CreateFileStoreOk
    \/ CreateFileStoreFail
    \/ CreateFileInsertOk
    \/ CreateFileInsertFail
    \/ DeleteFileById

FilesSpec == FilesInit /\ [][FilesNext]_vars

(* ---------------------------- storage factory --------------------------- *)

\* StorageConfig values: the type, and whether the local and the s3 sections
\* are present ("ftp" stands for a type the factory does not know)
StorageConfigs ==
    [type : {"local", "s3", "ftp"}, local : BOOLEAN, s3 : BOOLEAN]

\* variant of createStorageProvider without the early return
createStorageProviderAlways(f, config) ==
    IF config.type = "local" \/ (config.type = "s3" /\ config.s3)
       THEN [f EXCEPT !.instance = f.built + 1, !.kind = config.type,
                      !.built = f.built + 1, !.returned = f.built + 1,
                      !.threw = FALSE]
       ELSE [f EXCEPT !.returned = 0, !.threw = TRUE]

\* createStorageProvider(config): objects are numbered in the order in which
\* they are constructed, 0 is null
createStorageProvider(f, config) ==
    IF f.instance # 0
       THEN [f EXCEPT !.returned = f.instance, !.threw = FALSE]
       ELSE IF config.type = "local" \/ (config.type = "s3" /\ config.s3)
               THEN [f EXCEPT !.instance = f.built + 1, !.kind = config.type,
                              !.built = f.built + 1, !.returned = f.built + 1,
                              !.threw = FALSE]
               ELSE [f EXCEPT !.returned = 0, !.threw = TRUE]

\* getStorageProvider()
getStorageProvider(f) ==
    IF f.instance = 0
       THEN createStorageProvider(f, [type |-> "local", local |-> FALSE,
                                      s3 |-> FALSE])
       ELSE [f EXCEPT !.returned = f.instance, !.threw = FALSE]

FactoryInit ==
    /\ NewRequest({PlainRequest})
    /\ multipart
    /\ storage = {}
    /\ provider = NoCall
    /\ pagination = NoPage
    /\ route = NoRoute
    /\ factory = NoFactory

CreateStorageProvider ==
    /\ \E config \in StorageConfigs :
          /\ factory.instance = 0 => factory.built < MaxInstances
          /\ factory' = [createStorageProvider(factory, config) EXCEPT
                            !.op = "create", !.config = config]
    /\ UNCHANGED <<requestVars, storage, provider, pagination, route>>

GetStorageProvider ==
    /\ factory.instance = 0 => factory.built < MaxInstances
    /\ factory' = [getStorageProvider(factory) EXCEPT
                      !.op = "get", !.config = NoConfig]
    /\ UNCHANGED <<requestVars, storage, provider, pagination, route>>

\* resetStorageInstance()
ResetStorageInstance ==
    /\ factory' = [factory EXCEPT !.instance = 0, !.kind = "", !.returned = 0,
                                  !.threw = FALSE, !.op = "reset",
                                  !.config = NoConfig]
    /\ UNCHANGED <<requestVars, storage, provider, pagination, route>>

FactoryNext ==
    \/ CreateStorageProvider
    \/ GetStorageProvider
    \/ ResetStorageInstance

FactorySpec == FactoryInit /\ [][FactoryNext]_vars

(* ------------------------- pagination utilities ------------------------ *)

\* Math.ceil(total / limit) for total >= 0 and limit >= 1
Ceil(total, limit) ==
    IF total % limit = 0 THEN total \div limit ELSE (total \div limit) + 1

\* variant of calculatePaginationMeta that rounds the page count down
calculatePaginationMetaFloor(page, limit, total) ==
    [page |-> page, limit |-> limit, total |-> total,
     totalPages |-> total \div limit,
     hasNext |-> page < total \div limit,
     hasPrev |-> page > 1]

calculatePaginationMeta(page, limit, total) ==
    LET totalPages == Ceil(total, limit) IN
    [page |-> page, limit |-> limit, total |-> total,
     totalPages |-> totalPages,
     hasNext |-> page < totalPages,
     hasPrev |-> page > 1]

calculateOffset(page, limit) == (page - 1) * limit

PageInit ==
    /\ NewRequest({PlainRequest})
    /\ multipart
    /\ storage = {}
    /\ provider = NoCall
    /\ pagination \in
          {[NoPage EXCEPT !.page = p, !.limit = l, !.total = t] :
              p \in 1..MaxPage, l \in 1..MaxLimit, t \in 0..MaxTotal}
    /\ route = NoRoute
    /\ factory = NoFactory

\* a route computes the offset of its query and the meta of its response
Paginate ==
    /\ ~pagination.called
    /\ pagination' =
          [pagination EXCEPT
              !.called = TRUE,
              !.offset = calculateOffset(pagination.page, pagination.limit),
              !.meta = calculatePaginationMeta(pagination.page, pagination.limit,
                                               pagination.total)]
    /\ UNCHANGED <<requestVars, storage, provider, route, factory>>

PageSpec == PageInit /\ [][Paginate]_vars

(* ------------------------------ properties ----------------------------- *)

TaskPath(t) == StoragePath(t.filename, t.ts)

Responded200 == pc = "done" /\ status = 200

\* validation of the shared fields failed for a request that had files
ValidationFailed ==
    /\ pc = "done"
    /\ multipart
    /\ ~streamFailed
    /\ ~NoFiles(tasks, immediateErrors)
    /\ ~FieldsValid(data)

\* the result of task i in the response
ResultOf(i) == results[Len(immediateErrors) + i]

TypeOK ==
    /\ pc \in {"start", "reading", "unwinding", "cleanup", "settling",
               "persisting", "done"}
    /\ status \in {0, 200, 400, 500}
    /\ fileCount = Len(tasks)
    /\ inflight \subseteq DOMAIN tasks

\* C1: once a 200 response is sent, every storagePath carried by a
\* successful item result has a metadata record and an artifact in storage,
\* and every artifact the batch wrote whose path no successful result
\* carries has been deleted.  (Stated for the responses in which no unlink
\* failed.)
C1_NoOrphan ==
    (Responded200 /\ UnlinkFailures = 0) =>
        /\ \A k \in DOMAIN results :
              results[k].success =>
                 /\ \E r \in records : r.storagePath = results[k].file.storagePath
                 /\ results[k].file.storagePath \in storage
        /\ \A i \in DOMAIN tasks :
              (~\E k \in DOMAIN results :
                    /\ results[k].success
                    /\ results[k].file.storagePath = TaskPath(tasks[i]))
                 => TaskPath(tasks[i]) \notin storage

\* C2: at every moment at most K = 3 store calls have started and not yet
\* settled.
C2_ConcurrencyCeiling ==
    Cardinality(Pending(tasks)) <= MAX_CONCURRENT_UPLOADS

\* C3: in every 200 response, total = successful + failed = number of
\* results = number of file parts of the request that had a file name.
C3_ItemCount ==
    Responded200 =>
        /\ Summary(results).total
              = Summary(results).successful + Summary(results).failed
        /\ Summary(results).total = Len(results)
        /\ Summary(results).total = named

\* C4 as stated: when validation of the shared fields fails the answer is a
\* single 400 without item results, no record is inserted, and storage holds
\* none of the batch's artifacts.
C4_ValidationUnwindsAll ==
    ValidationFailed =>
        /\ status = 400
        /\ results = <<>>
        /\ records = {}
        /\ \A i \in DOMAIN tasks : TaskPath(tasks[i]) \notin storage

\* C4 amended: when validation of the shared fields fails the answer is a
\* single 400 without item results, no record is inserted, a delete has been
\* attempted for every store that completed successfully, and storage holds
\* none of the batch's artifacts except those whose delete failed and the
\* partial files that a failed store could not remove.
C4_ValidationUnwindsBestEffort ==
    ValidationFailed =>
        /\ status = 400
        /\ results = <<>>
        /\ records = {}
        /\ \A i \in DOMAIN tasks :
              /\ tasks[i].store = "ok" => tasks[i].stage \in {"deleted", "undeleted"}
              /\ TaskPath(tasks[i]) \in storage =>
                    \E j \in DOMAIN tasks :
                       /\ TaskPath(tasks[j]) = TaskPath(tasks[i])
                       /\ (tasks[j].stage = "undeleted" \/ tasks[j].partial)

C4_Witness ==
    /\ ValidationFailed
    /\ status = 400
    /\ Cardinality({i \in DOMAIN tasks : tasks[i].stage = "deleted"}) >= 2
    /\ \E i \in DOMAIN tasks : tasks[i].stage = "undeleted"

\* C5: in a 200 response, exactly the items whose insert failed have their
\* artifact deleted and a failed result naming their file; every other
\* stored item keeps its artifact and its record, with the result it would
\* have had if no insert had failed.  (Stated for the responses in which no
\* store and no unlink failed.)
C5_InsertFailureIsolated ==
    (Responded200 /\ StoreFailures = 0 /\ UnlinkFailures = 0) =>
        \A i \in DOMAIN tasks :
            tasks[i].store = "ok" =>
                IF tasks[i].stage \in {"deleted", "undeleted"}
                    THEN /\ TaskPath(tasks[i]) \notin storage
                         /\ ResultOf(i) = ItemError(tasks[i].filename, "db", "")
                    ELSE /\ TaskPath(tasks[i]) \in storage
                         /\ FileRecord(i, tasks[i], ParsedFields(data)) \in records
                         /\ ResultOf(i) =
                               ItemSuccess(FileRecord(i, tasks[i], ParsedFields(data)))

\* C6: the status is 400 when the request is not multipart, when no named
\* file part was submitted or when the shared fields are invalid; 200 when
\* the fields are valid and at least one named file part arrived, whatever
\* the item results; 500 only when the handler caught an exception.
C6_StatusRule ==
    pc = "done" =>
        /\ ~multipart => status = 400
        /\ (multipart /\ ~streamFailed /\ named = 0) => status = 400
        /\ (multipart /\ ~streamFailed /\ named > 0 /\ ~FieldsValid(data))
              => status = 400
        /\ (multipart /\ ~streamFailed /\ named > 0 /\ FieldsValid(data))
              => (status = 200 /\ Len(results) > 0)
        /\ status = 500 => streamFailed

C6_Witness ==
    /\ Responded200
    /\ Len(results) >= 2
    /\ \A k \in DOMAIN results : ~results[k].success
    /\ \E i \in DOMAIN tasks : tasks[i].store = "failed"
    /\ \E i \in DOMAIN tasks : tasks[i].stage = "deleted"

\* C7: when every store call eventually settles, every admitted task's
\* wrapped promise settles (from some moment on no task is left in flight, so
\* none waits forever at the gate), and a task that has settled stays settled
\* with the one outcome its store produced.
C7_EveryTaskSettles ==
    /\ <>[](inflight = {})
    /\ [][\A i \in DOMAIN tasks :
              /\ tasks[i].store # "pending" => tasks'[i].store = tasks[i].store
              /\ i \notin inflight => i \notin inflight']_vars

C7_Witness ==
    \E i \in DOMAIN tasks :
        /\ tasks[i].gate.raced
        /\ tasks[i].store = "ok"
        /\ i \notin inflight
        /\ \E j \in DOMAIN tasks : j > i /\ tasks[j].gate.raced /\ j \in inflight

\* C8: a failing store is captured as a failed item result of a 200
\* response: it never causes a 500 and never is an unhandled rejection.
C8_StoreFailureCaptured ==
    /\ ~unhandled
    /\ status = 500 => streamFailed
    /\ Responded200 =>
          \A i \in DOMAIN tasks :
              tasks[i].store = "failed" =>
                  ResultOf(i) = ItemError(tasks[i].filename, "store", "")

\* C9: the first 10 named file parts are processed by the other rules, and
\* every later named file part gets the limit error, starts no store and has
\* its stream drained.
C9_FirstTenOnly ==
    [][\A part \in FileParts :
          (ReadFile(part) /\ part.filename # NoName) =>
              IF named < FileCountLimit
                  THEN /\ drained' = drained
                       /\ (handleFilePart(part) = "task") =
                             (Len(tasks') = Len(tasks) + 1)
                  ELSE /\ immediateErrors' =
                             Append(immediateErrors,
                                    ItemError(part.filename, "limit", ""))
                       /\ tasks' = tasks
                       /\ storage' = storage
                       /\ drained' = drained + 1]_vars

C11_OversizeRejected ==
    Responded200 =>
        \A i \in DOMAIN tasks :
            tasks[i].oversize =>
               /\ ResultOf(i) = ItemError(tasks[i].filename, "truncated", "")
               /\ TaskPath(tasks[i]) \notin storage

\* C12: a file part with no file name is dropped wherever it occurs in the
\* part stream: it adds no item result, starts no store and does not advance
\* the file count.
C12_NamelessDropped ==
    [][\A part \in FileParts :
          (ReadFile(part) /\ part.filename = NoName) =>
              UNCHANGED <<immediateErrors, tasks, inflight, fileCount,
                          storage>>]_vars

\* C13: a 200 response to a batch of n allowed and m disallowed parts (all
\* named, none oversize, n + m <= 10) in which every store and every insert
\* succeeded has the summary {total: n+m, successful: n, failed: m}, storage
\* holds exactly n artifacts and the metadata store exactly n records, one
\* per artifact.
C13_SummaryExact ==
    LET n == Len(tasks)
        m == Len(immediateErrors)
    IN  (/\ Responded200
         /\ n + m <= FileCountLimit
         /\ \A k \in DOMAIN immediateErrors : immediateErrors[k].error = "type"
         /\ \A i \in DOMAIN tasks :
               ~tasks[i].oversize /\ tasks[i].store = "ok" /\ tasks[i].stage = "saved")
        =>
        /\ Summary(results) = [total |-> n + m, successful |-> n, failed |-> m]
        /\ Cardinality(storage) = n
        /\ Cardinality(records) = n
        /\ \A p \in storage :
              Cardinality({r \in records : r.storagePath = p}) = 1

\* C14 as stated: a delete call on a path that does not exist (never written,
\* or already deleted) completes without error, and after any delete call
\* the path does not exist in storage.
C14_DeleteIdempotent ==
    [][ProviderDelete =>
          /\ provider'.path \notin storage => ~provider'.threw
          /\ provider'.path \notin storage']_vars

\* C14 amended: delete treats a missing file as already deleted.  Unless
\* unlink reports an error other than ENOENT, a call on a path that does not
\* exist (never written, or already deleted) completes without error and
\* leaves storage as it was, and a call on an existing path removes it; after
\* any call that completes without error the path does not exist; a call
\* that fails leaves storage unchanged.
C14_DeleteIdempotentUnlessIOError ==
    [][ProviderDelete =>
          /\ provider'.errno # "EIO" =>
                (~provider'.threw /\ storage' = storage \ {provider'.path})
          /\ ~provider'.threw => provider'.path \notin storage'
          /\ provider'.threw => storage' = storage]_vars

C14_Witness ==
    /\ provider.op = "delete"
    /\ provider.errno = "ENOENT"
    /\ ~provider.threw
    /\ provider.path \notin storage
    /\ storage # {}

\* C15 as stated: when a store call fails, no file remains at the path
\* generated for that call once the error is returned, and the call has
\* changed storage in no other way.
C15_FailedStoreLeavesNoFile ==
    [][\A i \in DOMAIN tasks :
          StoreSettle(i, FALSE) =>
              /\ TaskPath(tasks[i]) \notin storage'
              /\ storage' = storage \ {TaskPath(tasks[i])}]_vars

\* C15 amended: when a store call fails, the partial file at the path
\* generated for that call is removed before the error is returned unless
\* that removal itself fails (the failure is only logged and the file
\* stays); the call changes storage in no other way.
C15_FailedStoreRemovesPartial ==
    [][\A i \in DOMAIN tasks :
          StoreSettle(i, FALSE) =>
              /\ tasks'[i].store = "failed"
              /\ ~tasks'[i].partial => TaskPath(tasks[i]) \notin storage'
              /\ tasks'[i].partial => storage' = storage
              /\ storage' \in {storage, storage \ {TaskPath(tasks[i])}}]_vars

C15_Witness ==
    \E i \in DOMAIN tasks :
        /\ tasks[i].store = "failed"
        /\ ~tasks[i].partial
        /\ TaskPath(tasks[i]) \notin storage
        /\ \E j \in DOMAIN tasks :
              /\ tasks[j].store = "ok"
              /\ TaskPath(tasks[j]) \in storage

\* C16: any two store calls are given different storage paths, also when
\* they are for parts with the same file name and start at the same clock
\* instant.
C16_DistinctPaths ==
    \A i, j \in DOMAIN tasks :
        i # j => TaskPath(tasks[i]) # TaskPath(tasks[j])

\* C17: when the answer is 400 because the request is not multipart or
\* because no file was submitted, no store call and no metadata insert has
\* been started for the request.
C17_EarlyRejectStartsNothing ==
    (pc = "done" /\ (~multipart \/ (~streamFailed /\ named = 0))) =>
        /\ status = 400
        /\ tasks = <<>>
        /\ inflight = {}
        /\ fileCount = 0
        /\ storage = {}
        /\ records = {}

C17_Witness ==
    /\ pc = "done"
    /\ status = 400
    /\ multipart
    /\ named = 0
    /\ FieldsValid(data)
    /\ data["status"] # Absent

\* C18: when the part stream fails after stores were started, the request
\* ends in an error state in which, once every store has settled, every
\* artifact the batch wrote has been deleted.
C18_StreamFailureCleansUp ==
    (pc = "done" /\ streamFailed /\ Pending(tasks) = {}) =>
        /\ status = 500
        /\ records = {}
        /\ \A i \in DOMAIN tasks : TaskPath(tasks[i]) \notin storage

\* C19: for page >= 1, limit >= 1 and total >= 0, calculateOffset returns
\* (page-1)*limit and calculatePaginationMeta returns totalPages =
\* ceil(total/limit) (the least number of pages of `limit` items that hold
\* `total` items), hasPrev iff page > 1, hasNext iff page < totalPages, which
\* is the case exactly when page*limit < total.
C19_Pagination ==
    pagination.called =>
        LET p == pagination.page
            l == pagination.limit
            t == pagination.total
            m == pagination.meta
        IN  /\ pagination.offset = (p - 1) * l
            /\ m.page = p /\ m.limit = l /\ m.total = t
            /\ m.totalPages >= 0
            /\ m.totalPages * l >= t
            /\ (m.totalPages - 1) * l < t
            /\ m.hasPrev = (p > 1)
            /\ m.hasNext = (p < m.totalPages)
            /\ m.hasNext = (p * l < t)

C19_Witness ==
    /\ pagination.called
    /\ pagination.page = 1 /\ pagination.limit = 10 /\ pagination.total = 100
    /\ pagination.offset = 0
    /\ pagination.meta.totalPages = 10
    /\ pagination.meta.hasNext
    /\ ~pagination.meta.hasPrev

\* the field map as it stands satisfies multipartFieldsSchema, spelled out
SchemaAccepts ==
    /\ data["ownerId"] \in UUIDs
    /\ data["createdBy"] \in UUIDs
    /\ data["folderId"] \in UUIDs \cup {Absent}
    /\ data["status"] \in {"ativo", "lixeira", Absent}

\* C20: for a request that gets past the not-multipart and no-file checks,
\* the shared fields are validated exactly once, at the step at which the
\* part stream ends: the field map never changes afterwards, the request
\* proceeds to persistence iff that final map is valid (ownerId and
\* createdBy identifiers, folderId an identifier or absent, status a known
\* status or absent), and every record carries the metadata of the final
\* map, whatever the order in which fields and files arrived.
C20_ValidatedOnceAfterStream ==
    /\ [][/\ data' # data => (pc = "reading" /\ pc' = "reading")
          /\ pc \notin {"start", "reading"} => pc' # "reading"
          /\ (pc' \in {"settling", "unwinding"} /\ pc' # pc) => pc = "reading"
          /\ (pc = "reading" /\ pc' \notin {"reading", "done"}) =>
                (tasks' = tasks /\ immediateErrors' = immediateErrors)]_vars
    /\ []((pc \in {"settling", "persisting"} \/ Responded200) => SchemaAccepts)
    /\ []((pc \in {"unwinding", "cleanup"} \/ ValidationFailed) => ~SchemaAccepts)
    /\ [](\A r \in records :
              /\ r.ownerId = data["ownerId"]
              /\ r.createdBy = data["createdBy"]
              /\ r.folderId = (IF data["folderId"] = Absent THEN "null"
                               ELSE data["folderId"])
              /\ r.status = (IF data["status"] = Absent THEN "ativo"
                             ELSE data["status"]))

C20_Witness ==
    /\ Responded200
    /\ Cardinality(records) >= 2
    /\ data["folderId"] = "u1"
    /\ data["status"] = "ativo"
    /\ \A i \in DOMAIN tasks : tasks[i].stage = "saved"

\* C21: no metadata insert is attempted until the part stream has ended, the
\* validation of the shared fields has succeeded and every store call has
\* settled; and the 200 response is sent only after every insert, and every
\* compensating delete, has settled.
C21_PersistAfterSettle ==
    /\ [][\A i \in DOMAIN tasks' :
             (/\ tasks'[i].stage = "inserting"
              /\ (i \notin DOMAIN tasks \/ tasks[i].stage # "inserting")) =>
                 /\ pc \notin {"start", "reading"}
                 /\ ~stalled
                 /\ SchemaAccepts
                 /\ Pending(tasks) = {}]_vars
    /\ [][records' # records =>
             (Pending(tasks) = {} /\ SchemaAccepts /\ pc = "persisting")]_vars
    /\ [][(status' = 200 /\ status # 200) =>
             \A i \in DOMAIN tasks :
                 tasks[i].stage \notin {"inserting", "deleting"}]_vars
    /\ [](Responded200 =>
             \A i \in DOMAIN tasks :
                 /\ tasks[i].store # "pending"
                 /\ tasks[i].stage \notin {"inserting", "deleting"})

C21_Witness ==
    /\ Responded200
    /\ \E i, j, k \in DOMAIN tasks :
          /\ tasks[i].stage = "saved"
          /\ tasks[j].stage = "deleted"
          /\ tasks[k].store = "failed"

\* C22: a compensating delete that fails never changes the reported outcome.
\* After a validation failure the response is still the single 400 and a
\* delete has still been attempted for every other stored artifact; after an
\* insert failure the item's result is still the insert failure, no record
\* exists for it, and the response is still 200.
C22_DeleteFailureSilent ==
    /\ (ValidationFailed /\ \E i \in DOMAIN tasks : tasks[i].stage = "undeleted") =>
          /\ status = 400
          /\ results = <<>>
          /\ \A j \in DOMAIN tasks :
                tasks[j].store = "ok" => tasks[j].stage \in {"deleted", "undeleted"}
    /\ (pc = "done" /\ ~ValidationFailed) =>
          \A i \in DOMAIN tasks :
             tasks[i].stage = "undeleted" =>
                /\ status = 200
                /\ ResultOf(i) = ItemError(tasks[i].filename, "db", "")
                /\ ~\E r \in records : r.id = i

C22_Witness ==
    /\ Responded200
    /\ \E i, j \in DOMAIN tasks :
          /\ tasks[i].stage = "undeleted"
          /\ tasks[j].stage = "saved"
          /\ ResultOf(j).success

\* C23: for a part whose store failed, the reconciler produces a failed item
\* result, attempts no insert for it and issues no storage delete for it.
C23_FailedStoreSkipped ==
    /\ [][\A i \in DOMAIN tasks :
             tasks[i].store = "failed" =>
                (tasks'[i].store = "failed" /\ tasks'[i].stage = "none")]_vars
    /\ [](\A i \in DOMAIN tasks :
             tasks[i].store = "failed" =>
                /\ tasks[i].stage = "none"
                /\ ~\E r \in records : r.id = i)
    /\ [](Responded200 =>
             \A i \in DOMAIN tasks :
                tasks[i].store = "failed" =>
                   ResultOf(i) = ItemError(tasks[i].filename, "store", ""))

C23_Witness ==
    /\ Responded200
    /\ \E i, j \in DOMAIN tasks :
          /\ tasks[i].store = "failed"
          /\ ~ResultOf(i).success
          /\ ResultOf(i).error = "store"
          /\ tasks[j].stage = "saved"

\* C24: whatever the completion order of the concurrent stores, each item
\* result is associated with its originating part: a failed result's error
\* is prefixed by that part's file name, and a successful result's record
\* carries the name, the size and the storage path of that same part's
\* artifact (the size measured is that of the bytes of this part alone).
C24_ResultOfOwnPart ==
    Responded200 =>
        \A i \in DOMAIN tasks :
            /\ ResultOf(i).filename = tasks[i].filename
            /\ ResultOf(i).success =>
                  /\ ResultOf(i).file.name = tasks[i].filename
                  /\ ResultOf(i).file.storagePath = TaskPath(tasks[i])
                  /\ ResultOf(i).file.size = "own"

\* C25: reaching the concurrency ceiling never rejects a part: every named,
\* allowed-type, non-truncated part delivered within the 10-file cap becomes
\* an upload task, whatever the number of uploads in flight, and in the 200
\* response its item result is decided by its own store and insert outcome
\* alone.
C25_CeilingNeverRejects ==
    /\ [][\A part \in {p \in FileParts :
                            /\ p.filename # NoName
                            /\ ~p.truncated
                            /\ validateFileType(p.mimetype, ALLOWED_FILE_TYPES)} :
             (fileCount < FileCountLimit /\ ReadFile(part)) =>
                 /\ Len(tasks') = Len(tasks) + 1
                 /\ tasks'[Len(tasks')].filename = part.filename
                 /\ immediateErrors' = immediateErrors]_vars
    /\ [](Responded200 =>
             \A i \in DOMAIN tasks :
                /\ ResultOf(i).success <=>
                      (tasks[i].store = "ok" /\ tasks[i].stage = "saved")
                /\ ~ResultOf(i).success =>
                      ResultOf(i).error =
                         (IF tasks[i].store = "failed" THEN "store" ELSE "db"))

C25_Witness ==
    /\ Responded200
    /\ Len(tasks) > MAX_CONCURRENT_UPLOADS
    /\ \E i, j \in DOMAIN tasks :
          /\ tasks[i].gate.raced
          /\ Cardinality(tasks[i].gate.on) >= MAX_CONCURRENT_UPLOADS
          /\ ResultOf(i).success
          /\ ~ResultOf(j).success

\* C26: when a field name occurs more than once in the part stream, the
\* value that is validated and persisted is that of its last occurrence;
\* earlier values of that name have no effect.
C26_LastFieldWins ==
    /\ data = arrived.last
    /\ (pc \in {"settling", "persisting"} \/ Responded200) =>
           FieldsValid(arrived.last)
    /\ (pc \in {"unwinding", "cleanup"} \/ ValidationFailed) =>
           ~FieldsValid(arrived.last)
    /\ \A r \in records :
           /\ r.ownerId = arrived.last["ownerId"]
           /\ r.createdBy = arrived.last["createdBy"]

C26_Witness ==
    /\ Responded200
    /\ arrived.replaced = {"ownerId", "createdBy"}
    /\ \E r \in records : r.ownerId = "u1" /\ r.createdBy = "u1"

\* C29: for every finite part stream in which each store, insert and delete
\* call eventually settles, the handler eventually sends a response, and it
\* sends exactly one; reading the part stream never stalls on a file part
\* that was rejected or dropped.
C29_AlwaysResponds ==
    /\ <>(pc = "done" /\ status # 0)
    /\ [][status # 0 => status' = status]_vars

\* C27: after DELETE /files/:id has answered 204 for an uploaded record, no
\* artifact remains in storage at that record's storagePath.
C27_DeleteRemovesArtifact ==
    (route.op = "delete" /\ route.status = 204) => route.path \notin storage

\* C28: a single-file upload (POST /files) that does not end in 201 leaves
\* no artifact in storage: no storage write has started when validation or
\* the type check rejects the request, and the stored artifact has been
\* removed when the insert failed.
C28_FailedUploadLeavesNothing ==
    (route.op = "upload" /\ route.pc = "done" /\ route.status # 201) =>
        \A n \in Names : StoragePath(n, route.seq) \notin storage

\* C30: between two resetStorageInstance calls every call of
\* createStorageProvider and getStorageProvider returns the same provider
\* instance, the one built by the first successful creation, whatever config
\* is passed afterwards; a createStorageProvider call that throws (type s3
\* without s3 config, unsupported type) leaves the instance unset; after
\* resetStorageInstance the next successful call builds a new instance.
C30_SingleInstance ==
    [][/\ (factory'.op \in {"create", "get"} /\ factory.instance # 0) =>
            /\ ~factory'.threw
            /\ factory'.returned = factory.instance
            /\ factory'.instance = factory.instance
            /\ factory'.kind = factory.kind
            /\ factory'.built = factory.built
       /\ (factory'.op \in {"create", "get"} /\ factory'.threw) =>
            /\ factory'.op = "create"
            /\ factory'.config.type # "local"
            /\ factory'.config.type = "s3" => ~factory'.config.s3
            /\ factory.instance = 0
            /\ factory'.instance = 0
            /\ factory'.built = factory.built
       /\ (/\ factory'.op \in {"create", "get"}
           /\ factory.instance = 0
           /\ ~factory'.threw) =>
            /\ factory'.instance = factory.built + 1
            /\ factory'.returned = factory'.instance
            /\ factory'.built = factory.built + 1
       /\ factory'.op = "reset" => factory'.instance = 0]_vars

C30_Witness ==
    /\ factory.op = "create"
    /\ factory.config.type = "s3"
    /\ factory.config.s3
    /\ factory.kind = "local"
    /\ factory.built = 2
    /\ factory.returned = factory.instance
    /\ factory.instance = 2

====
